---- MODULE Spec2Model ----
(***************************************************************************)
(* Request/response relay of the Figma bridge MCP server: the peer slot    *)
(* (figmaPlugin), the pending-request table (pendingRequests), the         *)
(* WebSocket listener (connection / message / close), sendToPlugin with    *)
(* its timeout timer, and the tool-call handler that awaits the promise.   *)
(*                                                                         *)
(* Node runs every handler to completion, so one action is one handler     *)
(* together with the promise reactions it triggers (the resumption of the  *)
(* awaiting tool-call handler is a microtask that runs before the next     *)
(* event).  `trace` keeps, in order, what the last handler did: the lines   *)
(* it logged, its writes of the slot, its operations on the table and the  *)
(* continuations it invoked; for a tool listing, the names it returned.    *)
(***************************************************************************)
EXTENDS Integers, Sequences, FiniteSets, TLC

\* ------------------------------------------------------------------ bounds
MaxCalls == 2        \* tool invocations made by the upstream caller
MaxConns == 2        \* connections accepted by the WebSocket server

\* the tool the upstream caller invokes in Spec, which follows concurrent
\* requests; ToolSpec follows one invocation of any tool instead
CalledTools == {"get_document_manifest"}

\* shapes of the arguments of a tool invocation: none at all, an object
\* without the tool's required argument, with it but of the wrong type, right
ArgShapes == {"undefined", "empty", "wrongtype", "valid"}

\* --------------------------------------------------------------- constants
Null == 0                          \* figmaPlugin === null / no requestId
Undefined == "undefined"           \* the JavaScript value undefined

NotConnectedMsg ==
    "Figma plugin is not connected. Please open Figma and run the Figma Bridge plugin."
TimeoutMsg == "Request timed out waiting for Figma plugin response"
DisconnectedMsg == "Figma plugin disconnected"
TypeErrorMsg == "Cannot read properties of undefined"

Conns == 1..MaxConns
Ids == 1..MaxCalls

VARIABLES
    figmaPlugin,      \* the peer slot: Null or the connection it holds
    readyState,       \* readyState of every connection object
    accepted,         \* number of connections accepted so far
    pendingRequests,  \* Map requestId -> the call whose resolve/reject it holds
    timers,           \* requestIds whose setTimeout callback has not run yet
    nextId,           \* number of requestIds generated so far
    calls,            \* the tool invocations: promise and upstream response
    sent,             \* per connection, the request frames handed to ws.send
    trace,            \* what the last handler did, in order: <<operation, id>>
    currentMode,      \* the plugin mode kept by the mode-aware copy of the server
    \* ---- the plugin (controller.ts in Figma's sandbox, ui.tsx in its iframe)
    presentationCache,\* plugin data "presentation_cache" of the document root
    currentPage,      \* figma.currentPage.id
    slidesOn,         \* per page, its top-level frames
    selection,        \* figma.currentPage.selection
    posted,           \* what the last run of figma.ui.onmessage posted to the UI
    inbound,          \* the message the last run of figma.ui.onmessage handled
    wsRef,            \* wsRef.current of the UI: Null or the socket it refers to
    wsState,          \* readyState of every socket the UI has created
    wsSent,           \* per socket of the UI, the frames handed to ws.send
    dropped           \* the plugin messages the UI handled without sending them

\* the state of the server
relayVars == <<figmaPlugin, readyState, accepted, pendingRequests, timers, nextId,
               calls, sent, trace, currentMode>>

\* the state of the plugin
uiVars == <<wsRef, wsState, wsSent, dropped>>
pluginVars == <<presentationCache, currentPage, slidesOn, selection, posted, inbound,
                uiVars>>

vars == <<relayVars, pluginVars>>

\* ------------------------------------------------------------ frames, events
\* if (value): undefined and the empty string are falsy
Truthy(v) == v \notin {Undefined, ""}

NoFrame == [malformed |-> FALSE, type |-> "", requestId |-> Null, mode |-> "",
            result |-> Undefined, error |-> Undefined, stack |-> ""]
MalformedFrame == [NoFrame EXCEPT !.malformed = TRUE]

\* The result a peer computes for request id.  Results are opaque to the
\* relay, so one value per request, different for different requests, is
\* enough to tell whose result a promise received.
ResultOf(id) == "result of request " \o ToString(id)

\* The error text a peer reports for request id, likewise one per request.
ErrorOf(id) == "error of request " \o ToString(id)

\* the `mode` of a mode_update frame: none, or a mode of the plugin
FrameModes == {"", "creating"}

\* The frames a peer can send: unparsable data, notifications (mode_update
\* with or without a mode, with or without a requestId; a type the server
\* does not know), and execution_result frames without a requestId or with
\* the requestId of a request that may or may not exist, carrying a result,
\* an error, an error with a stack, an error whose text is empty, or neither.
Frames ==
    {MalformedFrame}
    \cup {[NoFrame EXCEPT !.type = "mode_update", !.requestId = id, !.mode = mode] :
             id \in {Null} \cup Ids, mode \in FrameModes}
    \cup {[NoFrame EXCEPT !.type = "selection_changed", !.requestId = id] : id \in Ids}
    \cup {[NoFrame EXCEPT !.type = "execution_result"]}
    \cup {[NoFrame EXCEPT !.type = "execution_result", !.requestId = id,
                          !.result = ResultOf(id)] : id \in Ids}
    \cup {[NoFrame EXCEPT !.type = "execution_result", !.requestId = id] : id \in Ids}
    \cup {[NoFrame EXCEPT !.type = "execution_result", !.requestId = id,
                          !.error = ErrorOf(id), !.stack = st] : id \in Ids, st \in {"", "at f"}}
    \cup {[NoFrame EXCEPT !.type = "execution_result", !.requestId = id,
                          !.error = "", !.stack = "at f"] : id \in Ids}

\* -------------------------------------------------------- promises and calls
Unsettled == [kind |-> "unsettled", value |-> ""]
Awaiting == [status |-> "awaiting", isError |-> FALSE, text |-> ""]

\* JSON.stringify(value, null, 2) of a result
JSONstringify(v) == IF v = Undefined THEN Undefined ELSE "\"" \o v \o "\""

\* JSON.stringify({ error: errorMessage }, null, 2)
ErrorText(msg) == "{ \"error\": \"" \o msg \o "\" }"

\* the return statement after `await sendToPlugin(...)`
SuccessResponse(result) ==
    [status |-> "returned", isError |-> FALSE, text |-> JSONstringify(result)]

\* A catch block that lets the error leave the handler.
RethrowResponse(msg) ==
    [status |-> "thrown", isError |-> FALSE, text |-> msg]

\* the catch block of the tool-call handler
CatchResponse(msg) ==
    [status |-> "returned", isError |-> TRUE, text |-> ErrorText(msg)]

\* JSON.stringify(result ?? { success: false, message: "No response" }, null, 2)
NoResponseText == "{ \"success\": false, \"message\": \"No response\" }"

\* the resumption of the tool-call handler of `tool` when its promise settles
ToolReturn(tool, outcome) ==
    IF outcome.kind = "resolved"
    THEN IF tool = "get_presentation_cache" /\ outcome.value = Undefined
         THEN [status |-> "returned", isError |-> FALSE, text |-> NoResponseText]
         ELSE SuccessResponse(outcome.value)
    ELSE CatchResponse(outcome.value)

\* resolve / reject of a promise: the call is counted, the first one settles
\* the promise and resumes the awaiting handler, later ones do nothing.
Invoke(call, kind, value) ==
    LET counted == IF kind = "resolved"
                   THEN [call EXCEPT !.resolveCalls = @ + 1]
                   ELSE [call EXCEPT !.rejectCalls = @ + 1]
        outcome == [kind |-> kind, value |-> value]
    IN IF call.outcome.kind = "unsettled"
       THEN [counted EXCEPT !.outcome = outcome, !.response = ToolReturn(call.tool, outcome)]
       ELSE counted

NewCall(tool) ==
    [tool |-> tool, sendCalls |-> 0, requestId |-> Null, resolveCalls |-> 0,
     rejectCalls |-> 0, outcome |-> Unsettled, response |-> Awaiting]

MapRemove(map, id) == [i \in DOMAIN map \ {id} |-> map[i]]
MapSet(map, id, v) == [i \in DOMAIN map \cup {id} |-> IF i = id THEN v ELSE map[i]]
EmptyMap == [i \in {} |-> 0]

\* ---------------------------------------------------------------- the plugin
\* the pages of the document and the frames a user can put on them
Pages == {"page A", "page B"}
Slides == {"s1", "s2"}

\* getCachedPresentation() === null: no plugin data, or data that does not parse
NoCache == [exists |-> FALSE, pageId |-> "", slides |-> {}, config |-> ""]

\* the `result` of a posted message; `present` is false when the message has
\* no result (sendError) and `value` false when the result is undefined
NoResult == [present |-> FALSE, value |-> FALSE, success |-> FALSE, fromCache |-> FALSE,
             cacheSaved |-> FALSE, cached |-> FALSE, cache |-> NoCache]

\* no message handled: the last step was not a run of figma.ui.onmessage
NoInbound == [type |-> "", requestId |-> Null]

\* the `type` and `requestId` destructured from the message handled
Inbound(type, requestId) == [type |-> type, requestId |-> requestId]

\* figma.ui.postMessage({ type: "execution_result", requestId, result })
ResultMessage(requestId, result) ==
    [type |-> "execution_result", requestId |-> requestId, result |-> result,
     error |-> Undefined, stack |-> Undefined]

\* sendError(requestId, error, context): the error text with the context in
\* brackets, and the stack when `error` is an Error object
sendError(requestId, errorMessage, isErrorObject, context) ==
    [type |-> "execution_result", requestId |-> requestId, result |-> NoResult,
     error |-> errorMessage \o (IF context # "" THEN " [" \o context \o "]" ELSE ""),
     stack |-> IF isErrorObject THEN "at controller" ELSE Undefined]

\* the message of an exception thrown by a call of the Figma API
ApiFailure == "figma api failure"

\* savePresentationCache(cache): the value of the plugin data afterwards;
\* setPluginData succeeds, or throws twice and the data stays as it was
savePresentationCache(old, cache, saveOk) == IF saveOk THEN cache ELSE old

\* the nodes handleScanPresentation scans: the node with the given id if
\* there is one, else the selection if any, else the frames of the page
TargetNodes(slideId) ==
    IF slideId # Undefined
    THEN {slideId} \cap UNION {slidesOn[p] : p \in Pages}
    ELSE IF selection # {} THEN selection ELSE slidesOn[currentPage]

\* A scan handler that answers from the cache whenever there is one, for
\* whatever page and whatever the request asks.
handleScanPresentationAlwaysCached(requestId, slideId, forceRescan, saveOk, throws) ==
    IF presentationCache.exists
    THEN [cache |-> presentationCache,
          posted |-> <<ResultMessage(requestId,
                          [NoResult EXCEPT !.present = TRUE, !.value = TRUE,
                                           !.success = TRUE, !.fromCache = TRUE,
                                           !.cache = presentationCache])>>]
    ELSE [cache |-> presentationCache,
          posted |-> <<sendError(requestId, "No slides found.", FALSE, "scan_presentation")>>]

\* handleScanPresentation(requestId, slideId, forceRescan): the plugin data
\* afterwards and the messages posted.  saveOk: setPluginData accepts the new
\* cache; throws: a call of the Figma API throws while the slides are scanned.
handleScanPresentation(requestId, slideId, forceRescan, saveOk, throws) ==
    IF /\ ~forceRescan /\ slideId = Undefined
       /\ presentationCache.exists /\ presentationCache.pageId = currentPage
    THEN [cache |-> presentationCache,
          posted |-> <<ResultMessage(requestId,
                          [NoResult EXCEPT !.present = TRUE, !.value = TRUE,
                                           !.success = TRUE, !.fromCache = TRUE,
                                           !.cache = presentationCache])>>]
    ELSE IF TargetNodes(slideId) = {}
    THEN [cache |-> presentationCache,
          posted |-> <<sendError(requestId, "No slides found.", FALSE, "scan_presentation")>>]
    ELSE IF throws
    THEN [cache |-> presentationCache,
          posted |-> <<sendError(requestId, ApiFailure, TRUE, "scan_presentation")>>]
    ELSE LET cache == [exists |-> TRUE, pageId |-> currentPage,
                       slides |-> TargetNodes(slideId),
                       config |-> presentationCache.config]
         IN [cache |-> savePresentationCache(presentationCache, cache, saveOk),
             posted |-> <<ResultMessage(requestId,
                             [NoResult EXCEPT !.present = TRUE, !.value = TRUE,
                                              !.success = TRUE, !.fromCache = FALSE,
                                              !.cacheSaved = saveOk, !.cache = cache])>>]

\* case "scan_presentation" of figma.ui.onmessage
ScanPresentation(requestId, slideId, forceRescan, saveOk, throws) ==
    /\ LET done == handleScanPresentation(requestId, slideId, forceRescan, saveOk, throws)
       IN /\ presentationCache' = done.cache
          /\ posted' = done.posted
    /\ inbound' = Inbound("scan_presentation", requestId)
    /\ UNCHANGED <<relayVars, uiVars, currentPage, slidesOn, selection>>

\* the code strings sent with "execute": none, blank, an expression with a
\* value, statements that return nothing, and code that throws
Codes == {Undefined, " ", "figma.currentPage.name", "figma.notify('x');",
          "throw new Error('boom')"}

\* what running the wrapped code gives: a value, undefined, or an exception
RunCode(code) ==
    CASE code = "figma.currentPage.name" -> "value"
      [] code = "figma.notify('x');" -> "undefined"
      [] OTHER -> "throws"

\* handleExecute(code, requestId): the messages posted
handleExecute(code, requestId) ==
    IF ~Truthy(code) \/ code = " "
    THEN <<sendError(requestId, "Code must be a non-empty string", FALSE, "validation")>>
    ELSE IF RunCode(code) = "throws"
    THEN <<sendError(requestId, "Execution failed: boom" \o "\nat controller", FALSE,
                     "execution")>>
    ELSE <<ResultMessage(requestId,
              [NoResult EXCEPT !.present = TRUE,
                               !.value = (RunCode(code) = "value")])>>

\* case "execute" of figma.ui.onmessage
Execute(requestId, code) ==
    /\ posted' = handleExecute(code, requestId)
    /\ inbound' = Inbound("execute", requestId)
    /\ UNCHANGED <<relayVars, uiVars, presentationCache, currentPage, slidesOn, selection>>

\* the cases of figma.ui.onmessage whose handlers read the document and keep
\* no state of their own
ReadingTypes == {"get_manifest", "deep_scan", "get_styles", "get_design_context",
                 "get_selection_context", "export_node_image", "analyze_patterns",
                 "clone_node", "fill_slide"}

\* the handlers that give up with sendError when the page, node or slide they
\* are asked about does not exist, and the text they send
Refusal(type) ==
    CASE type = "deep_scan" -> "Page not found: p"
      [] type = "analyze_patterns" -> "Page not found: p"
      [] type = "clone_node" -> "Node not found: n"
      [] type = "fill_slide" -> "Slide not found: s"
      [] OTHER -> ""

\* the context a handler's own catch passes to sendError; handleGetManifest and
\* handleDeepScan have no catch, and the one of figma.ui.onmessage passes none
Context(type) == IF type \in {"get_manifest", "deep_scan"} THEN "" ELSE type

Outcomes == {"result", "refused", "throws"}

\* a handler of ReadingTypes: the messages posted when it finds what it was
\* asked about, when it does not, and when a call of the Figma API throws
handleReading(type, requestId, outcome) ==
    CASE outcome = "result" ->
           <<ResultMessage(requestId, [NoResult EXCEPT !.present = TRUE, !.value = TRUE])>>
      [] outcome = "refused" ->
           <<sendError(requestId, Refusal(type), FALSE,
                       IF type = "deep_scan" THEN "" ELSE type)>>
      [] OTHER ->
           <<sendError(requestId, ApiFailure, TRUE, Context(type))>>

\* the cases of ReadingTypes of figma.ui.onmessage
Reading(type, requestId, outcome) ==
    /\ outcome = "refused" => Refusal(type) # ""
    /\ posted' = handleReading(type, requestId, outcome)
    /\ inbound' = Inbound(type, requestId)
    /\ UNCHANGED <<relayVars, uiVars, presentationCache, currentPage, slidesOn, selection>>

\* the presentationConfig of a configure_presentation message: {} or a cover
Configs == {"", "cover s1"}

\* case "configure_presentation" of figma.ui.onmessage:
\* handleConfigurePresentation(requestId, config)
ConfigurePresentation(requestId, config, saveOk) ==
    /\ IF ~presentationCache.exists
       THEN /\ posted' = <<sendError(requestId,
                              "No presentation cached. Run scan_presentation first.",
                              FALSE, "configure_presentation")>>
            /\ UNCHANGED presentationCache
       ELSE LET cache == [presentationCache EXCEPT
                             !.config = IF config = "" THEN @ ELSE config]
            IN /\ presentationCache' =
                     savePresentationCache(presentationCache, cache, saveOk)
               /\ posted' = <<ResultMessage(requestId,
                                 [NoResult EXCEPT !.present = TRUE, !.value = TRUE,
                                                  !.success = TRUE,
                                                  !.cache = [NoCache EXCEPT
                                                      !.config = cache.config]])>>
    /\ inbound' = Inbound("configure_presentation", requestId)
    /\ UNCHANGED <<relayVars, uiVars, currentPage, slidesOn, selection>>

\* case "get_presentation_cache" of figma.ui.onmessage:
\* handleGetPresentationCache(requestId)
GetPresentationCache(requestId) ==
    /\ posted' = <<ResultMessage(requestId,
                      IF ~presentationCache.exists
                      THEN [NoResult EXCEPT !.present = TRUE, !.value = TRUE]
                      ELSE [NoResult EXCEPT !.present = TRUE, !.value = TRUE,
                                            !.success = TRUE, !.cached = TRUE,
                                            !.cache = presentationCache])>>
    /\ inbound' = Inbound("get_presentation_cache", requestId)
    /\ UNCHANGED <<relayVars, uiVars, presentationCache, currentPage, slidesOn, selection>>

\* case "resize" of figma.ui.onmessage: the window is resized, nothing is posted
Resize ==
    /\ posted' = <<>>
    /\ inbound' = Inbound("resize", Null)
    /\ UNCHANGED <<relayVars, uiVars, presentationCache, currentPage, slidesOn, selection>>

\* message types that no case of figma.ui.onmessage names
UnknownTypes == {"no_such_operation"}

\* the default case of figma.ui.onmessage
UnknownType(type, requestId) ==
    /\ posted' = <<sendError(requestId, "Unknown message type: " \o type, FALSE, "")>>
    /\ inbound' = Inbound(type, requestId)
    /\ UNCHANGED <<relayVars, uiVars, presentationCache, currentPage, slidesOn, selection>>

\* the user creates frame s on the current page
CreateFrame(s) ==
    /\ \A p \in Pages : s \notin slidesOn[p]
    /\ slidesOn' = [slidesOn EXCEPT ![currentPage] = @ \cup {s}]
    /\ posted' = <<>>
    /\ inbound' = NoInbound
    /\ UNCHANGED <<relayVars, uiVars, presentationCache, currentPage, selection>>

\* the user deletes frame s of the current page
DeleteFrame(s) ==
    /\ s \in slidesOn[currentPage]
    /\ slidesOn' = [slidesOn EXCEPT ![currentPage] = @ \ {s}]
    /\ selection' = selection \ {s}
    /\ posted' = <<>>
    /\ inbound' = NoInbound
    /\ UNCHANGED <<relayVars, uiVars, presentationCache, currentPage>>

\* the user selects frames of the current page, or nothing
Select(sel) ==
    /\ sel \subseteq slidesOn[currentPage]
    /\ selection' = sel
    /\ posted' = <<>>
    /\ inbound' = NoInbound
    /\ UNCHANGED <<relayVars, uiVars, presentationCache, currentPage, slidesOn>>

\* the user goes to page p, where nothing is selected
SetCurrentPage(p) ==
    /\ p # currentPage
    /\ currentPage' = p
    /\ selection' = {}
    /\ posted' = <<>>
    /\ inbound' = NoInbound
    /\ UNCHANGED <<relayVars, uiVars, presentationCache, slidesOn>>

\* ------------------------------------------------------------------- Init
Init ==
    /\ figmaPlugin = Null
    /\ readyState = [k \in Conns |-> "NONE"]
    /\ accepted = 0
    /\ pendingRequests = EmptyMap
    /\ timers = {}
    /\ nextId = 0
    /\ calls = <<>>
    /\ sent = [k \in Conns |-> {}]
    /\ trace = <<>>
    /\ currentMode = "editing"
    /\ presentationCache = NoCache
    /\ currentPage = "page A"
    /\ slidesOn = [p \in Pages |-> {}]
    /\ selection = {}
    /\ posted = <<>>
    /\ inbound = NoInbound
    /\ wsRef = Null
    /\ wsState = [k \in Conns |-> "NONE"]
    /\ wsSent = [k \in Conns |-> {}]
    /\ dropped = {}

\* ------------------------------------------------------------ the listener
\* The slot keeping the connection it already holds.
AcceptSlotKeepFirst(slot, ws) == IF slot = Null THEN ws ELSE slot

\* wss.on("connection"): the new socket replaces whatever the slot held.
AcceptSlot(slot, ws) == ws

\* A connection handler that rejects the requests of the connection it
\* supersedes and empties the table.
ConnectionDrains ==
    /\ accepted < MaxConns
    /\ LET ws == accepted + 1 IN
       /\ accepted' = ws
       /\ readyState' = [readyState EXCEPT ![ws] = "OPEN"]
       /\ figmaPlugin' = AcceptSlot(figmaPlugin, ws)
       /\ trace' = <<<<"log connected", 0>>, <<"slot", ws>>>>
    /\ calls' = [c \in DOMAIN calls |->
                   IF \E id \in DOMAIN pendingRequests : pendingRequests[id] = c
                   THEN Invoke(calls[c], "rejected", DisconnectedMsg)
                   ELSE calls[c]]
    /\ pendingRequests' = EmptyMap
    /\ UNCHANGED <<pluginVars, currentMode, timers, nextId, sent>>

\* wss.on("connection"): log, then figmaPlugin = ws (the listeners it
\* registers on ws are the actions Message, Close and Error)
Connection ==
    /\ accepted < MaxConns
    /\ LET ws == accepted + 1 IN
       /\ accepted' = ws
       /\ readyState' = [readyState EXCEPT ![ws] = "OPEN"]
       /\ figmaPlugin' = AcceptSlot(figmaPlugin, ws)
       /\ trace' = <<<<"log connected", 0>>, <<"slot", ws>>>>
    /\ UNCHANGED <<pluginVars, currentMode, pendingRequests, timers, nextId, calls, sent>>

\* The socket starts closing (close frame received, or the TCP stream ended):
\* readyState leaves OPEN before the "close" event is emitted.
BeginClose(ws) ==
    /\ readyState[ws] = "OPEN"
    /\ readyState' = [readyState EXCEPT ![ws] = "CLOSING"]
    /\ trace' = <<>>
    /\ UNCHANGED <<pluginVars, currentMode, figmaPlugin, accepted, pendingRequests, timers, nextId,
                   calls, sent>>

\* keys of a Map in iteration (insertion) order; requestIds are handed out in
\* increasing order, so insertion order is numeric order here
RECURSIVE KeysInOrder(_)
KeysInOrder(keys) ==
    IF keys = {} THEN <<>>
    ELSE LET first == CHOOSE i \in keys : \A j \in keys : i <= j
         IN <<first>> \o KeysInOrder(keys \ {first})

\* The close handler's loop with the iterator losing its place on every
\* delete: the entry after a deleted one is skipped.
RECURSIVE DrainLoopSkip(_, _)
DrainLoopSkip(ids, st) ==
    IF ids = <<>> THEN st
    ELSE LET id == Head(ids)
             c == st.pending[id]
         IN DrainLoopSkip(IF Len(ids) > 1 THEN Tail(Tail(ids)) ELSE <<>>,
                [calls |-> [st.calls EXCEPT ![c] = Invoke(@, "rejected", DisconnectedMsg)],
                 pending |-> MapRemove(st.pending, id),
                 trace |-> st.trace \o <<<<"reject", id>>, <<"delete", id>>>>])

\* The loop of the close handler over a handler state st = [calls, pending,
\* trace]: for (const [id, { reject }] of pendingRequests)
\*     { reject(new Error("Figma plugin disconnected")); pendingRequests.delete(id); }
RECURSIVE DrainLoop(_, _)
DrainLoop(ids, st) ==
    IF ids = <<>> THEN st
    ELSE LET id == Head(ids)
             c == st.pending[id]
         IN DrainLoop(Tail(ids),
                [calls |-> [st.calls EXCEPT ![c] = Invoke(@, "rejected", DisconnectedMsg)],
                 pending |-> MapRemove(st.pending, id),
                 trace |-> st.trace \o <<<<"reject", id>>, <<"delete", id>>>>])

\* A close handler that drains the table first and clears the slot last.
CloseDrainFirst(ws) ==
    /\ readyState[ws] \in {"OPEN", "CLOSING"}
    /\ readyState' = [readyState EXCEPT ![ws] = "CLOSED"]
    /\ figmaPlugin' = Null
    /\ LET st == DrainLoop(KeysInOrder(DOMAIN pendingRequests),
                           [calls |-> calls, pending |-> pendingRequests,
                            trace |-> <<<<"log disconnected", 0>>>>])
       IN /\ calls' = st.calls
          /\ pendingRequests' = st.pending
          /\ trace' = st.trace \o <<<<"slot", Null>>>>
    /\ UNCHANGED <<pluginVars, currentMode, accepted, timers, nextId, sent>>

\* ws.on("close") of connection ws
Close(ws) ==
    /\ readyState[ws] \in {"OPEN", "CLOSING"}
    /\ readyState' = [readyState EXCEPT ![ws] = "CLOSED"]
    /\ figmaPlugin' = Null
    /\ LET st == DrainLoop(KeysInOrder(DOMAIN pendingRequests),
                           [calls |-> calls, pending |-> pendingRequests,
                            trace |-> <<<<"log disconnected", 0>>, <<"slot", Null>>>>])
       IN /\ calls' = st.calls
          /\ pendingRequests' = st.pending
          /\ trace' = st.trace
    /\ UNCHANGED <<pluginVars, currentMode, accepted, timers, nextId, sent>>

\* ws.on("error") of connection ws: the handler logs the error and does
\* nothing else.  The socket has left OPEN when it emits the event (a failed
\* socket or a protocol violation starts the closing of the connection).
Error(ws) ==
    /\ readyState[ws] \in {"OPEN", "CLOSING"}
    /\ readyState' = [readyState EXCEPT ![ws] = "CLOSING"]
    /\ trace' = <<<<"log error", 0>>>>
    /\ UNCHANGED <<pluginVars, currentMode, figmaPlugin, accepted, pendingRequests, timers, nextId,
                   calls, sent>>

\* new Error(`${message.error}${message.stack ? '\nStack trace:\n' + message.stack : ''}`)
RemoteErrorMsg(message) ==
    message.error \o (IF message.stack # "" THEN "\nStack trace:\n" \o message.stack ELSE "")

\* handlePluginMessage that settles the promise and leaves the entry in the
\* table.
handlePluginMessageNoDelete(message, st) ==
    IF message.type = "execution_result" /\ message.requestId # Null
    THEN IF message.requestId \in DOMAIN st.pending
         THEN LET c == st.pending[message.requestId]
              IN IF Truthy(message.error)
                 THEN [st EXCEPT !.calls[c] = Invoke(@, "rejected", RemoteErrorMsg(message)),
                                 !.trace = @ \o <<<<"get", message.requestId>>,
                                                  <<"reject", message.requestId>>>>]
                 ELSE [st EXCEPT !.calls[c] = Invoke(@, "resolved", message.result),
                                 !.trace = @ \o <<<<"get", message.requestId>>,
                                                  <<"resolve", message.requestId>>>>]
         ELSE [st EXCEPT !.trace = @ \o <<<<"get", message.requestId>>>>]
    ELSE st

\* handlePluginMessage that answers the oldest outstanding request instead of
\* the one the frame names (responses assumed to arrive in request order).
handlePluginMessageFifo(message, st) ==
    IF message.type = "execution_result" /\ message.requestId # Null
    THEN IF message.requestId \in DOMAIN st.pending
         THEN LET oldest == Head(KeysInOrder(DOMAIN st.pending))
                  c == st.pending[oldest]
              IN IF Truthy(message.error)
                 THEN [calls |-> [st.calls EXCEPT ![c] =
                                    Invoke(@, "rejected", RemoteErrorMsg(message))],
                       pending |-> MapRemove(st.pending, oldest),
                       trace |-> st.trace \o <<<<"get", oldest>>, <<"delete", oldest>>,
                                               <<"reject", oldest>>>>]
                 ELSE [calls |-> [st.calls EXCEPT ![c] =
                                    Invoke(@, "resolved", message.result)],
                       pending |-> MapRemove(st.pending, oldest),
                       trace |-> st.trace \o <<<<"get", oldest>>, <<"delete", oldest>>,
                                               <<"resolve", oldest>>>>]
         ELSE [st EXCEPT !.trace = @ \o <<<<"get", message.requestId>>>>]
    ELSE st

\* handlePluginMessage that keeps the continuations with the request and
\* invokes them without looking the identifier up in the table.
handlePluginMessageNoPendingCheck(message, st) ==
    IF message.type = "execution_result" /\ message.requestId # Null
    THEN IF \E c \in DOMAIN st.calls : st.calls[c].requestId = message.requestId
         THEN LET c == CHOOSE k \in DOMAIN st.calls : st.calls[k].requestId = message.requestId
              IN IF Truthy(message.error)
                 THEN [calls |-> [st.calls EXCEPT ![c] =
                                    Invoke(@, "rejected", RemoteErrorMsg(message))],
                       pending |-> MapRemove(st.pending, message.requestId),
                       trace |-> st.trace \o <<<<"delete", message.requestId>>,
                                               <<"reject", message.requestId>>>>]
                 ELSE [calls |-> [st.calls EXCEPT ![c] =
                                    Invoke(@, "resolved", message.result)],
                       pending |-> MapRemove(st.pending, message.requestId),
                       trace |-> st.trace \o <<<<"delete", message.requestId>>,
                                               <<"resolve", message.requestId>>>>]
         ELSE st
    ELSE st

\* handlePluginMessage that drops a result frame carrying neither a result
\* nor an error and leaves its entry in the table.
handlePluginMessageDropsEmpty(message, st) ==
    IF message.type = "execution_result" /\ message.requestId # Null
    THEN IF message.requestId \in DOMAIN st.pending
              /\ (Truthy(message.error) \/ message.result # Undefined)
         THEN LET c == st.pending[message.requestId]
                  removed == MapRemove(st.pending, message.requestId)
              IN IF Truthy(message.error)
                 THEN [calls |-> [st.calls EXCEPT ![c] =
                                    Invoke(@, "rejected", RemoteErrorMsg(message))],
                       pending |-> removed,
                       trace |-> st.trace \o <<<<"get", message.requestId>>,
                                               <<"delete", message.requestId>>,
                                               <<"reject", message.requestId>>>>]
                 ELSE [calls |-> [st.calls EXCEPT ![c] =
                                    Invoke(@, "resolved", message.result)],
                       pending |-> removed,
                       trace |-> st.trace \o <<<<"get", message.requestId>>,
                                               <<"delete", message.requestId>>,
                                               <<"resolve", message.requestId>>>>]
         ELSE [st EXCEPT !.trace = @ \o <<<<"get", message.requestId>>>>]
    ELSE st

\* handlePluginMessage(message) over a handler state st = [calls, pending, trace]
handlePluginMessage(message, st) ==
    IF message.type = "execution_result" /\ message.requestId # Null
    THEN IF message.requestId \in DOMAIN st.pending
         THEN LET c == st.pending[message.requestId]
                  removed == MapRemove(st.pending, message.requestId)
              IN IF Truthy(message.error)
                 THEN [calls |-> [st.calls EXCEPT ![c] =
                                    Invoke(@, "rejected", RemoteErrorMsg(message))],
                       pending |-> removed,
                       trace |-> st.trace \o <<<<"get", message.requestId>>,
                                               <<"delete", message.requestId>>,
                                               <<"reject", message.requestId>>>>]
                 ELSE [calls |-> [st.calls EXCEPT ![c] =
                                    Invoke(@, "resolved", message.result)],
                       pending |-> removed,
                       trace |-> st.trace \o <<<<"get", message.requestId>>,
                                               <<"delete", message.requestId>>,
                                               <<"resolve", message.requestId>>>>]
         ELSE [st EXCEPT !.trace = @ \o <<<<"get", message.requestId>>>>]
    ELSE st

\* A message handler without the try/catch: the SyntaxError of JSON.parse
\* leaves the listener uncaught and ends the process, and with it every
\* connection.
ReceiveNoCatch(frame) ==
    IF frame.malformed
    THEN /\ readyState' = [k \in Conns |->
                             IF readyState[k] = "NONE" THEN "NONE" ELSE "CLOSED"]
         /\ trace' = <<<<"uncaught exception", 0>>>>
         /\ UNCHANGED <<pluginVars, currentMode, figmaPlugin, accepted, pendingRequests, timers, nextId,
                        calls, sent>>
    ELSE LET st == handlePluginMessage(frame, [calls |-> calls,
                                               pending |-> pendingRequests,
                                               trace |-> <<>>])
         IN /\ calls' = st.calls
            /\ pendingRequests' = st.pending
            /\ trace' = st.trace
            /\ UNCHANGED <<pluginVars, currentMode, figmaPlugin, readyState, accepted, timers, nextId, sent>>

\* A message handler that cancels the timer of the request it settles
\* (clearTimeout).
ReceiveCancelsTimer(frame) ==
    /\ LET st0 == [calls |-> calls, pending |-> pendingRequests, trace |-> <<>>]
           st == IF frame.malformed
                 THEN [st0 EXCEPT !.trace = <<<<"log parse failure", 0>>>>]
                 ELSE handlePluginMessage(frame, st0)
       IN /\ calls' = st.calls
          /\ pendingRequests' = st.pending
          /\ trace' = st.trace
          /\ timers' = timers \ (DOMAIN pendingRequests \ DOMAIN st.pending)
    /\ UNCHANGED <<pluginVars, currentMode, figmaPlugin, readyState, accepted, nextId, sent>>

\* The body of the message handler (the same closure on every connection):
\* JSON.parse, then handlePluginMessage; a parse failure is caught and logged.
Receive(frame) ==
    /\ LET st0 == [calls |-> calls, pending |-> pendingRequests, trace |-> <<>>]
           st == IF frame.malformed
                 THEN [st0 EXCEPT !.trace = <<<<"log parse failure", 0>>>>]
                 ELSE handlePluginMessage(frame, st0)
       IN /\ calls' = st.calls
          /\ pendingRequests' = st.pending
          /\ trace' = st.trace
    /\ UNCHANGED <<pluginVars, currentMode, figmaPlugin, readyState, accepted, timers, nextId, sent>>

\* A message listener that ignores the frames of a connection the slot no
\* longer holds.
MessageCurrentOnly(ws, frame) ==
    /\ readyState[ws] = "OPEN"
    /\ figmaPlugin = ws
    /\ Receive(frame)

\* ws.on("message") of connection ws: an open connection delivers a frame
Message(ws, frame) ==
    /\ readyState[ws] = "OPEN"
    /\ Receive(frame)

\* ------------------------------------- the mode-aware copy of the listener
\* new Error(`${message.error}\n\nStack trace:\n${message.stack || "N/A"}`)
RemoteErrorMsgModeAware(message) ==
    message.error \o "\n\nStack trace:\n"
        \o (IF message.stack # "" THEN message.stack ELSE "N/A")

\* A mode-aware handlePluginMessage that treats a mode_update carrying a
\* requestId as the answer to that request.
handlePluginMessageModeAwareSettles(message, st) ==
    IF message.type = "mode_update"
    THEN IF message.requestId \in DOMAIN st.pending
         THEN [st EXCEPT !.calls[st.pending[message.requestId]] =
                            Invoke(@, "resolved", message.mode),
                         !.pending = MapRemove(@, message.requestId),
                         !.mode = IF message.mode # "" THEN message.mode ELSE "editing",
                         !.trace = @ \o <<<<"mode", 0>>, <<"log mode", 0>>,
                                          <<"delete", message.requestId>>,
                                          <<"resolve", message.requestId>>>>]
         ELSE [st EXCEPT !.mode = IF message.mode # "" THEN message.mode ELSE "editing",
                         !.trace = @ \o <<<<"mode", 0>>, <<"log mode", 0>>>>]
    ELSE st

\* handlePluginMessage of the first copy of the server in the file, which
\* keeps currentMode, over a handler state st = [calls, pending, trace, mode]
handlePluginMessageModeAware(message, st) ==
    IF message.type = "mode_update"
    THEN [st EXCEPT !.mode = IF message.mode # "" THEN message.mode ELSE "editing",
                    !.trace = @ \o <<<<"mode", 0>>, <<"log mode", 0>>>>]
    ELSE IF message.type = "execution_result" /\ message.requestId # Null
    THEN IF message.requestId \in DOMAIN st.pending
         THEN LET c == st.pending[message.requestId]
                  removed == MapRemove(st.pending, message.requestId)
              IN IF Truthy(message.error)
                 THEN [st EXCEPT !.calls[c] =
                                    Invoke(@, "rejected", RemoteErrorMsgModeAware(message)),
                                 !.pending = removed,
                                 !.trace = @ \o <<<<"get", message.requestId>>,
                                                  <<"delete", message.requestId>>,
                                                  <<"reject", message.requestId>>>>]
                 ELSE [st EXCEPT !.calls[c] = Invoke(@, "resolved", message.result),
                                 !.pending = removed,
                                 !.trace = @ \o <<<<"get", message.requestId>>,
                                                  <<"delete", message.requestId>>,
                                                  <<"resolve", message.requestId>>>>]
         ELSE [st EXCEPT !.trace = @ \o <<<<"get", message.requestId>>>>]
    ELSE st

\* the body of the message handler of the mode-aware copy
ReceiveModeAware(frame) ==
    /\ LET st0 == [calls |-> calls, pending |-> pendingRequests, trace |-> <<>>,
                   mode |-> currentMode]
           st == IF frame.malformed
                 THEN [st0 EXCEPT !.trace = <<<<"log parse failure", 0>>>>]
                 ELSE handlePluginMessageModeAware(frame, st0)
       IN /\ calls' = st.calls
          /\ pendingRequests' = st.pending
          /\ trace' = st.trace
          /\ currentMode' = st.mode
    /\ UNCHANGED <<pluginVars, figmaPlugin, readyState, accepted, timers, nextId, sent>>

\* ws.on("message") of connection ws in the mode-aware copy
MessageModeAware(ws, frame) ==
    /\ readyState[ws] = "OPEN"
    /\ ReceiveModeAware(frame)

\* the invocation that was given requestId id
CallOf(cs, id) == CHOOSE c \in DOMAIN cs : cs[c].requestId = id

\* The setTimeout callback without its pendingRequests.has(requestId) test.
TimeoutCallbackNoCheck(id, st) ==
    [calls |-> [st.calls EXCEPT ![CallOf(st.calls, id)] =
                  Invoke(@, "rejected", TimeoutMsg)],
     pending |-> MapRemove(st.pending, id),
     trace |-> st.trace \o <<<<"delete", id>>, <<"reject", id>>>>]

\* The setTimeout callback that rejects and forgets to delete the entry.
TimeoutCallbackNoDelete(id, st) ==
    IF id \in DOMAIN st.pending
    THEN [st EXCEPT !.calls[st.pending[id]] = Invoke(@, "rejected", TimeoutMsg),
                    !.trace = @ \o <<<<"has", id>>, <<"reject", id>>>>]
    ELSE [st EXCEPT !.trace = @ \o <<<<"has", id>>>>]

\* The setTimeout callback that rejects first and deletes the entry after.
TimeoutCallbackRejectFirst(id, st) ==
    IF id \in DOMAIN st.pending
    THEN [calls |-> [st.calls EXCEPT ![st.pending[id]] =
                       Invoke(@, "rejected", TimeoutMsg)],
          pending |-> MapRemove(st.pending, id),
          trace |-> st.trace \o <<<<"has", id>>, <<"reject", id>>, <<"delete", id>>>>]
    ELSE [st EXCEPT !.trace = @ \o <<<<"has", id>>>>]

\* A setTimeout callback that transmits the request again instead of failing
\* it.
TimeoutCallbackRetry(id, st) ==
    IF id \in DOMAIN st.pending
    THEN [st EXCEPT !.calls[st.pending[id]].sendCalls = @ + 1,
                    !.trace = @ \o <<<<"has", id>>, <<"send", id>>>>]
    ELSE [st EXCEPT !.trace = @ \o <<<<"has", id>>>>]

\* the setTimeout callback of request id, over a handler state
TimeoutCallback(id, st) ==
    IF id \in DOMAIN st.pending
    THEN [calls |-> [st.calls EXCEPT ![st.pending[id]] =
                       Invoke(@, "rejected", TimeoutMsg)],
          pending |-> MapRemove(st.pending, id),
          trace |-> st.trace \o <<<<"has", id>>, <<"delete", id>>, <<"reject", id>>>>]
    ELSE [st EXCEPT !.trace = @ \o <<<<"has", id>>>>]

\* RESPONSE_TIMEOUT has elapsed for request id.  Every timer has the same
\* delay, so the timers fire in the order in which they were scheduled.
TimerFire(id) ==
    /\ id \in timers
    /\ \A other \in timers : id <= other
    /\ timers' = timers \ {id}
    /\ LET st == TimeoutCallback(id, [calls |-> calls, pending |-> pendingRequests,
                                      trace |-> <<>>])
       IN /\ calls' = st.calls
          /\ pendingRequests' = st.pending
          /\ trace' = st.trace
    /\ UNCHANGED <<pluginVars, currentMode, figmaPlugin, readyState, accepted, nextId, sent>>

\* The frames a peer sends in Spec: answers to requests, with a result or
\* with an error, in any order, any number of times, for any identifier.
AnswerFrames ==
    {f \in Frames : f.type = "execution_result" /\ f.requestId # Null
                    /\ (f.result # Undefined \/ Truthy(f.error)) /\ f.stack = ""}

\* --------------------------------------------------------------- dispatch
\* sendToPlugin that tests the slot for null only, not the readyState.
sendToPluginNullCheckOnly(c, message, st) ==
    IF figmaPlugin = Null
    THEN [st EXCEPT !.calls[c] = Invoke([@ EXCEPT !.sendCalls = @ + 1],
                                        "rejected", NotConnectedMsg),
                    !.trace = @ \o <<<<"reject", Null>>>>]
    ELSE LET requestId == st.nextId + 1
             fullMessage == [type |-> message.type, arg |-> message.arg,
                             requestId |-> requestId]
         IN [st EXCEPT !.nextId = requestId,
                       !.calls[c].sendCalls = @ + 1,
                       !.calls[c].requestId = requestId,
                       !.pending = MapSet(@, requestId, c),
                       !.timers = @ \cup {requestId},
                       !.sent[figmaPlugin] = @ \cup {fullMessage},
                       !.trace = @ \o <<<<"set", requestId>>, <<"timer", requestId>>,
                                        <<"send", requestId>>>>]

\* sendToPlugin that registers and transmits without scheduling the timer.
sendToPluginNoTimer(c, message, st) ==
    IF figmaPlugin = Null \/ readyState[figmaPlugin] # "OPEN"
    THEN [st EXCEPT !.calls[c] = Invoke([@ EXCEPT !.sendCalls = @ + 1],
                                        "rejected", NotConnectedMsg),
                    !.trace = @ \o <<<<"reject", Null>>>>]
    ELSE LET requestId == st.nextId + 1
             fullMessage == [type |-> message.type, arg |-> message.arg,
                             requestId |-> requestId]
         IN [st EXCEPT !.nextId = requestId,
                       !.calls[c].sendCalls = @ + 1,
                       !.calls[c].requestId = requestId,
                       !.pending = MapSet(@, requestId, c),
                       !.sent[figmaPlugin] = @ \cup {fullMessage},
                       !.trace = @ \o <<<<"set", requestId>>, <<"send", requestId>>>>]

\* sendToPlugin that transmits the frame first and registers the request and
\* schedules its timer afterwards.
sendToPluginSendFirst(c, message, st) ==
    IF figmaPlugin = Null \/ readyState[figmaPlugin] # "OPEN"
    THEN [st EXCEPT !.calls[c] = Invoke([@ EXCEPT !.sendCalls = @ + 1],
                                        "rejected", NotConnectedMsg),
                    !.trace = @ \o <<<<"reject", Null>>>>]
    ELSE LET requestId == st.nextId + 1
             fullMessage == [type |-> message.type, arg |-> message.arg,
                             requestId |-> requestId]
         IN [st EXCEPT !.nextId = requestId,
                       !.calls[c].sendCalls = @ + 1,
                       !.calls[c].requestId = requestId,
                       !.pending = MapSet(@, requestId, c),
                       !.timers = @ \cup {requestId},
                       !.sent[figmaPlugin] = @ \cup {fullMessage},
                       !.trace = @ \o <<<<"send", requestId>>, <<"set", requestId>>,
                                        <<"timer", requestId>>>>]

\* sendToPlugin(message) called by invocation c, over a handler state
\* st = [calls, pending, timers, sent, nextId, trace]; the promise executor
\* runs synchronously inside the call.
sendToPlugin(c, message, st) ==
    IF figmaPlugin = Null \/ readyState[figmaPlugin] # "OPEN"
    THEN [st EXCEPT !.calls[c] = Invoke([@ EXCEPT !.sendCalls = @ + 1],
                                        "rejected", NotConnectedMsg),
                    !.trace = @ \o <<<<"reject", Null>>>>]
    ELSE LET requestId == st.nextId + 1
             fullMessage == [type |-> message.type, arg |-> message.arg,
                             requestId |-> requestId]
         IN [st EXCEPT !.nextId = requestId,
                       !.calls[c].sendCalls = @ + 1,
                       !.calls[c].requestId = requestId,
                       !.pending = MapSet(@, requestId, c),
                       !.timers = @ \cup {requestId},
                       !.sent[figmaPlugin] = @ \cup {fullMessage},
                       !.trace = @ \o <<<<"set", requestId>>, <<"timer", requestId>>,
                                        <<"send", requestId>>>>]

\* A connectivity test that looks at the slot only: a connection that is
\* closing still counts as connected.
isConnectedSlotOnly == figmaPlugin # Null

\* const isConnected = figmaPlugin?.readyState === WebSocket.OPEN;
isConnected == figmaPlugin # Null /\ readyState[figmaPlugin] = "OPEN"

\* JSON text returned by get_figma_state
StateText(connected) ==
    IF connected
    THEN "{ connected: true, ready: true, message: Figma plugin is connected and ready }"
    ELSE "{ connected: false, ready: false, message: " \o NotConnectedMsg \o " }"

\* the names of the cases of the switch
ToolNames ==
    {"get_figma_state", "get_design_context", "execute_figma_command",
     "get_document_manifest", "deep_scan_page", "get_selection_context",
     "export_node_image", "analyze_patterns", "clone_node", "scan_presentation",
     "fill_slide", "configure_presentation", "get_presentation_cache"}

\* type of the message a dispatching case hands to sendToPlugin
MessageType(name) ==
    CASE name = "execute_figma_command" -> "execute"
      [] name = "get_document_manifest" -> "get_manifest"
      [] name = "deep_scan_page" -> "deep_scan"
      [] OTHER -> name

\* cases that read a property of `args` without the `args || {}` guard
ReadsArgsUnguarded == {"execute_figma_command", "deep_scan_page"}

\* cases whose message carries an argument the schema marks as required
\* (code, pageId, targetNodeId, slideId and slots)
HasRequiredArg == {"execute_figma_command", "deep_scan_page", "clone_node", "fill_slide"}

\* The argument as the case copies it into the message: whatever the caller
\* supplied, undefined when it supplied none.
ShapedArg(name, args) ==
    IF name \in HasRequiredArg /\ args \in {"wrongtype", "valid"} THEN args ELSE Undefined

\* The switch of the tool-call handler up to its first await: what the case
\* of tool `name` does with arguments `args`.
ToolCase(name, args) ==
    CASE name = "get_figma_state" ->
           [kind |-> "return",
            response |-> [status |-> "returned", isError |-> FALSE,
                          text |-> StateText(isConnected)]]
      [] name \in ReadsArgsUnguarded /\ args = "undefined" ->
           [kind |-> "throw", message |-> TypeErrorMsg]
      [] name \in ToolNames \ {"get_figma_state"} /\ ~(name \in ReadsArgsUnguarded /\ args = "undefined") ->
           [kind |-> "dispatch",
            message |-> [type |-> MessageType(name), arg |-> ShapedArg(name, args)]]
      [] OTHER ->
           [kind |-> "throw", message |-> "Unknown tool: " \o name]

\* server.setRequestHandler(CallToolRequestSchema, ...): one tool invocation
CallToolRequest(name, args) ==
    /\ LET c == Len(calls) + 1
           st0 == [calls |-> Append(calls, NewCall(name)),
                   pending |-> pendingRequests, timers |-> timers, sent |-> sent,
                   nextId |-> nextId, trace |-> <<>>]
           case == ToolCase(name, args)
           st == CASE case.kind = "return" ->
                        [st0 EXCEPT !.calls[c].response = case.response]
                   [] case.kind = "throw" ->
                        [st0 EXCEPT !.calls[c].response = CatchResponse(case.message)]
                   [] OTHER -> sendToPlugin(c, case.message, st0)
       IN /\ calls' = st.calls
          /\ pendingRequests' = st.pending
          /\ timers' = st.timers
          /\ sent' = st.sent
          /\ nextId' = st.nextId
          /\ trace' = st.trace
    /\ UNCHANGED <<pluginVars, currentMode, figmaPlugin, readyState, accepted>>

\* the upstream caller invokes a tool (Spec)
ToolCall(name, args) ==
    /\ Len(calls) < MaxCalls
    /\ CallToolRequest(name, args)

\* ToolSpec follows one invocation of any tool, known or not, with any
\* arguments, through every behaviour of the peer
AnyToolCall(name, args) ==
    /\ calls = <<>>
    /\ CallToolRequest(name, args)

\* ----------------------------------------------------------------- discovery
\* the `name` of every entry of the `tools` array, in the order of the array
ListedTools ==
    <<"get_figma_state", "get_design_context", "execute_figma_command",
      "get_document_manifest", "deep_scan_page", "get_selection_context",
      "export_node_image", "analyze_patterns", "clone_node", "scan_presentation",
      "fill_slide", "configure_presentation", "get_presentation_cache">>

\* A listing that offers the relayed tools only while a peer is connected.
ListToolsConnectedOnly ==
    IF figmaPlugin = Null THEN <<"get_figma_state">> ELSE ListedTools

\* the value the tool-listing handler returns: return { tools: [ ... ] }
ListTools == ListedTools

\* server.setRequestHandler(ListToolsRequestSchema, ...): the names of the
\* returned list are kept in `trace`, one entry per tool
ListToolsRequest ==
    /\ trace' = [i \in 1..Len(ListTools) |-> <<ListTools[i], 0>>]
    /\ UNCHANGED <<pluginVars, currentMode, figmaPlugin, readyState, accepted, pendingRequests, timers,
                   nextId, calls, sent>>

\* ------------------------------------------------------------ specification
Next ==
    \/ Connection
    \/ \E ws \in Conns : BeginClose(ws)
    \/ \E ws \in Conns : Close(ws)
    \/ \E ws \in Conns, frame \in AnswerFrames : Message(ws, frame)
    \/ \E id \in Ids : TimerFire(id)
    \/ \E name \in CalledTools : ToolCall(name, "valid")

Spec == Init /\ [][Next]_vars

ToolNext ==
    \/ Connection
    \/ \E ws \in Conns : BeginClose(ws)
    \/ \E ws \in Conns : Close(ws)
    \/ \E ws \in Conns, frame \in Frames : Message(ws, frame)
    \/ \E id \in Ids : TimerFire(id)
    \/ \E name \in ToolNames \cup {"no_such_tool"}, args \in ArgShapes :
          AnyToolCall(name, args)
    \/ ListToolsRequest
    \/ \E ws \in Conns : Error(ws)

ToolSpec == Init /\ [][ToolNext]_vars

\* The mode-aware copy of the server: its listener, timer and dispatch are
\* those of the latest copy line for line (the not-connected error is worded
\* "Figma plugin is not connected"), its handlePluginMessage also keeps
\* currentMode.  One invocation of a tool whose case both copies share.
ModeNext ==
    \/ Connection
    \/ \E ws \in Conns : BeginClose(ws)
    \/ \E ws \in Conns : Close(ws)
    \/ \E ws \in Conns, frame \in Frames : MessageModeAware(ws, frame)
    \/ \E id \in Ids : TimerFire(id)
    \/ \E name \in CalledTools : AnyToolCall(name, "valid")

ModeSpec == Init /\ [][ModeNext]_vars

\* The plugin on its own: the user edits the document and the controller
\* handles the requests the UI forwards to it.
PluginNext ==
    \/ \E s \in Slides : CreateFrame(s)
    \/ \E s \in Slides : DeleteFrame(s)
    \/ \E sel \in SUBSET Slides : Select(sel)
    \/ \E p \in Pages : SetCurrentPage(p)
    \/ \E requestId \in Ids, slideId \in Slides \cup {Undefined},
          forceRescan \in BOOLEAN, saveOk \in BOOLEAN, throws \in BOOLEAN :
          ScanPresentation(requestId, slideId, forceRescan, saveOk, throws)

PluginSpec == Init /\ [][PluginNext]_vars

\* figma.ui.onmessage with every case of its switch, on a document whose user
\* adds frames to the current page
ControllerNext ==
    \/ \E s \in Slides : CreateFrame(s)
    \/ \E requestId \in Ids, slideId \in Slides \cup {Undefined},
          forceRescan \in BOOLEAN, saveOk \in BOOLEAN, throws \in BOOLEAN :
          ScanPresentation(requestId, slideId, forceRescan, saveOk, throws)
    \/ \E requestId \in Ids, code \in Codes : Execute(requestId, code)
    \/ \E type \in ReadingTypes, requestId \in Ids, outcome \in Outcomes :
          Reading(type, requestId, outcome)
    \/ \E requestId \in Ids, config \in Configs, saveOk \in BOOLEAN :
          ConfigurePresentation(requestId, config, saveOk)
    \/ \E requestId \in Ids : GetPresentationCache(requestId)
    \/ Resize
    \/ \E type \in UnknownTypes, requestId \in Ids : UnknownType(type, requestId)

ControllerSpec == Init /\ [][ControllerNext]_vars

\* ------------------------------------------------------- the UI of the plugin
\* the state of the controller
controllerVars == <<presentationCache, currentPage, slidesOn, selection, posted, inbound>>

\* the sockets the UI has created so far
Created == {k \in Conns : wsState[k] # "NONE"}

\* { type: "mode_update", mode } as the onopen handler sends it; `mode` is the
\* one of the first render
ModeUpdate == [NoFrame EXCEPT !.type = "mode_update", !.mode = "editing"]

\* the answers of the controller that reach the handler of the UI: for every
\* request the message with its result (the handler does not look at what a
\* message carries)
PluginMessages ==
    {ResultMessage(id, [NoResult EXCEPT !.present = TRUE, !.value = TRUE]) : id \in Ids}

\* JSON.stringify(msg) as the server parses it: properties whose value is
\* undefined are left out, the result is the one of the request
Stringify(msg) ==
    [NoFrame EXCEPT !.type = msg.type, !.requestId = msg.requestId,
                    !.result = IF msg.result.present /\ msg.result.value
                               THEN ResultOf(msg.requestId) ELSE Undefined,
                    !.error = msg.error,
                    !.stack = IF msg.stack = Undefined THEN "" ELSE msg.stack]

\* connect(): on mount, and three seconds after a socket closed
connect ==
    /\ wsRef = Null
    /\ Cardinality(Created) < MaxConns
    /\ LET ws == Cardinality(Created) + 1
       IN /\ wsRef' = ws
          /\ wsState' = [wsState EXCEPT ![ws] = "CONNECTING"]
    /\ UNCHANGED <<relayVars, controllerVars, wsSent, dropped>>

\* An onopen handler that also sends what the message handler could not send
\* while there was no open socket.
onopenFlushes(ws) ==
    /\ wsState[ws] = "CONNECTING"
    /\ wsState' = [wsState EXCEPT ![ws] = "OPEN"]
    /\ wsSent' = [wsSent EXCEPT ![ws] = @ \cup {ModeUpdate}
                                         \cup {Stringify(msg) : msg \in dropped}]
    /\ UNCHANGED <<relayVars, controllerVars, wsRef, dropped>>

\* ws.onopen of socket ws: the mode is sent, nothing else
onopen(ws) ==
    /\ wsState[ws] = "CONNECTING"
    /\ wsState' = [wsState EXCEPT ![ws] = "OPEN"]
    /\ wsSent' = [wsSent EXCEPT ![ws] = @ \cup {ModeUpdate}]
    /\ UNCHANGED <<relayVars, controllerVars, wsRef, dropped>>

\* socket ws fails to connect or its connection ends: its readyState changes
\* before its close event is handled
SocketCloses(ws) ==
    /\ wsState[ws] \in {"CONNECTING", "OPEN"}
    /\ wsState' = [wsState EXCEPT ![ws] = "CLOSED"]
    /\ UNCHANGED <<relayVars, controllerVars, wsRef, wsSent, dropped>>

\* ws.onclose of socket ws: wsRef.current = null, and connect in three seconds
onclose(ws) ==
    /\ wsState[ws] = "CLOSED"
    /\ wsRef = ws
    /\ wsRef' = Null
    /\ UNCHANGED <<relayVars, controllerVars, wsState, wsSent, dropped>>

\* requests the controller has answered: their answers were sent or dropped
Answered ==
    {f.requestId : f \in UNION {wsSent[k] : k \in Conns}}
    \cup {msg.requestId : msg \in dropped}

\* the handler of "message" events of the UI window: msg is the answer of the
\* controller to a request of the server, sent if the socket is open
handler(msg) ==
    /\ \E k \in Conns : \E m \in sent[k] : m.requestId = msg.requestId
    /\ msg.requestId \notin Answered
    /\ IF wsRef # Null /\ wsState[wsRef] = "OPEN"
       THEN /\ wsSent' = [wsSent EXCEPT ![wsRef] = @ \cup {Stringify(msg)}]
            /\ UNCHANGED dropped
       ELSE /\ dropped' = dropped \cup {msg}
            /\ UNCHANGED wsSent
    /\ UNCHANGED <<relayVars, controllerVars, wsRef, wsState>>

\* The server and the UI of one plugin.  The server accepts the sockets the
\* UI creates, in the order of their creation, and receives the frames the UI
\* has sent on them.  The server closes no connection itself, so a connection
\* ends on the side of the UI before the close event of the server.  The
\* client of the server awaits the response of a call before it makes the
\* next; answers that arrive and timers that fire after their request has
\* ended change nothing and are left out.
PeerNext ==
    \/ connect
    \/ \E ws \in Conns : readyState[ws] = "OPEN" /\ onopen(ws)
    \/ \E ws \in Conns : readyState[ws] = "OPEN" /\ SocketCloses(ws)
    \/ \E ws \in Conns : onclose(ws)
    \/ \E msg \in PluginMessages : handler(msg)
    \/ accepted + 1 \in Created /\ Connection
    \/ \E ws \in Conns : wsState[ws] = "CLOSED" /\ Close(ws)
    \/ \E ws \in Conns : \E frame \in wsSent[ws] :
          frame.requestId \in DOMAIN pendingRequests /\ Message(ws, frame)
    \/ \E id \in DOMAIN pendingRequests : TimerFire(id)
    \/ \E name \in CalledTools : DOMAIN pendingRequests = {} /\ ToolCall(name, "valid")

PeerSpec == Init /\ [][PeerNext]_vars

\* The event loop runs a timer callback once its delay has elapsed.
FairToolSpec == ToolSpec /\ \A id \in Ids : WF_vars(TimerFire(id))

\* ------------------------------------------------------------------ claims
\* number of times a continuation of invocation c's promise was invoked
Invocations(c) == calls[c].resolveCalls + calls[c].rejectCalls

\* Every event that can end the request of invocation c has happened: the
\* request was refused inside sendToPlugin, or its timer has fired.
Terminal(c) ==
    /\ calls[c].sendCalls > 0
    /\ calls[c].requestId = Null \/ calls[c].requestId \notin timers

\* the connection on which the request frame of requestId id was transmitted
SentOn(id) == {ws \in Conns : \E m \in sent[ws] : m.requestId = id}

\* C1 - Single resolution: for every request issued by sendToPlugin, under
\* any interleaving of a matching response frame, the timer and a close event,
\* the two continuations are invoked at most once in total at any time, and
\* exactly once in total when the request has ended (refused in the call, or
\* its timer has fired).
C1_SingleResolution ==
    \A c \in DOMAIN calls :
        calls[c].sendCalls > 0 =>
            /\ Invocations(c) <= 1
            /\ Terminal(c) => Invocations(c) = 1
            /\ Invocations(c) = 1 <=> calls[c].outcome.kind # "unsettled"

\* C1 witness: a request was answered, then its timer fired and its
\* connection closed, and only resolve was invoked, once.
C1_Witness ==
    \E c \in DOMAIN calls :
        /\ calls[c].requestId # Null
        /\ calls[c].resolveCalls = 1 /\ calls[c].rejectCalls = 0
        /\ calls[c].requestId \notin timers
        /\ \E ws \in SentOn(calls[c].requestId) : readyState[ws] = "CLOSED"

\* C2 - No leak: every identifier in pendingRequests belongs to an invocation
\* whose promise is unsettled and that carries this identifier; an invocation
\* whose promise is settled, by whatever path, has no identifier in the table.
C2_NoLeak ==
    /\ \A id \in DOMAIN pendingRequests :
          /\ pendingRequests[id] \in DOMAIN calls
          /\ calls[pendingRequests[id]].requestId = id
          /\ calls[pendingRequests[id]].outcome.kind = "unsettled"
    /\ \A c \in DOMAIN calls :
          calls[c].outcome.kind # "unsettled" =>
              calls[c].requestId \notin DOMAIN pendingRequests

\* C2 witness: one request has been settled by a response while another is
\* still in the table.
C2_Witness ==
    /\ \E c \in DOMAIN calls :
          /\ trace = <<<<"get", calls[c].requestId>>, <<"delete", calls[c].requestId>>,
                       <<"resolve", calls[c].requestId>>>>
          /\ calls[c].outcome.kind = "resolved"
    /\ pendingRequests # EmptyMap

\* C3 - Drain on disconnect is total: a close event handled while N >= 0
\* requests are outstanding rejects every one of them with "Figma plugin
\* disconnected", once, and leaves pendingRequests empty.
C3_DrainTotal ==
    [][\A ws \in Conns :
         Close(ws) =>
            /\ pendingRequests' = EmptyMap
            /\ \A id \in DOMAIN pendingRequests :
                  LET c == pendingRequests[id]
                  IN /\ calls'[c].outcome = [kind |-> "rejected", value |-> DisconnectedMsg]
                     /\ calls'[c].rejectCalls = calls[c].rejectCalls + 1
                     /\ calls'[c].resolveCalls = calls[c].resolveCalls]_vars

\* C3 witness: a close event was handled with two requests outstanding.
C3_Witness ==
    /\ trace = <<<<"log disconnected", 0>>, <<"slot", Null>>,
                 <<"reject", 1>>, <<"delete", 1>>, <<"reject", 2>>, <<"delete", 2>>>>
    /\ pendingRequests = EmptyMap
    /\ \A c \in DOMAIN calls :
          calls[c].outcome = [kind |-> "rejected", value |-> DisconnectedMsg]

\* C4 - Fast failure when disconnected: sendToPlugin called while the slot is
\* null or holds a connection that is not OPEN rejects with the
\* not-connected error inside that call (the invocation returns the failure
\* in the same step), adds no table entry, schedules no timer and transmits
\* no frame.
C4_FastFailure ==
    [][\A name \in CalledTools :
         (/\ ToolCall(name, "valid")
          /\ figmaPlugin = Null \/ readyState[figmaPlugin] # "OPEN")
         => LET c == Len(calls) + 1
            IN /\ calls'[c].sendCalls = 1
               /\ calls'[c].outcome = [kind |-> "rejected", value |-> NotConnectedMsg]
               /\ calls'[c].rejectCalls = 1 /\ calls'[c].resolveCalls = 0
               /\ calls'[c].requestId = Null
               /\ calls'[c].response.status = "returned"
               /\ calls'[c].response.isError
               /\ UNCHANGED <<pendingRequests, timers, sent, nextId>>]_vars

\* C4 witness: the slot holds a connection that is closing, and the call
\* just made was refused in the call.
C4_Witness ==
    /\ figmaPlugin # Null
    /\ readyState[figmaPlugin] = "CLOSING"
    /\ trace = <<<<"reject", Null>>>>
    /\ calls # <<>>
    /\ calls[Len(calls)].outcome = [kind |-> "rejected", value |-> NotConnectedMsg]

\* C5 - Timeout: when the timer of a request fires while the request is
\* still registered (no response and no close event has ended it), the
\* request is rejected with the timed-out error and its identifier is no
\* longer in pendingRequests; the other entries stay.
C5_Timeout ==
    [][\A id \in Ids :
         (TimerFire(id) /\ id \in DOMAIN pendingRequests)
         => LET c == pendingRequests[id]
            IN /\ calls'[c].outcome = [kind |-> "rejected", value |-> TimeoutMsg]
               /\ calls'[c].rejectCalls = calls[c].rejectCalls + 1
               /\ calls'[c].resolveCalls = calls[c].resolveCalls
               /\ pendingRequests' = MapRemove(pendingRequests, id)]_vars

\* C5 witness: a request timed out on a connection that is still open.
C5_Witness ==
    \E c \in DOMAIN calls :
        /\ calls[c].requestId # Null
        /\ trace = <<<<"has", calls[c].requestId>>, <<"delete", calls[c].requestId>>,
                     <<"reject", calls[c].requestId>>>>
        /\ calls[c].outcome = [kind |-> "rejected", value |-> TimeoutMsg]
        /\ calls[c].requestId \notin DOMAIN pendingRequests
        /\ \E ws \in SentOn(calls[c].requestId) : readyState[ws] = "OPEN"

\* C6 - Out-of-order correlation: a response frame for an outstanding
\* request settles the invocation that was given the frame's requestId, with
\* the frame's own result or error, whatever the arrival order; every other
\* invocation and every other table entry is left as it was.
C6_Correlation ==
    [][\A f \in AnswerFrames :
         (f.requestId \in DOMAIN pendingRequests /\ Receive(f))
         => LET c == pendingRequests[f.requestId]
            IN /\ calls[c].requestId = f.requestId
               /\ calls'[c].outcome =
                     IF Truthy(f.error)
                     THEN [kind |-> "rejected", value |-> RemoteErrorMsg(f)]
                     ELSE [kind |-> "resolved", value |-> f.result]
               /\ \A d \in DOMAIN calls \ {c} : calls'[d] = calls[d]
               /\ pendingRequests' = MapRemove(pendingRequests, f.requestId)]_vars

\* C6 witness: requests 1 and 2 were outstanding and the answer to 2 came
\* first: 2 is resolved with its own result while 1 is still in the table.
C6_Witness ==
    /\ trace = <<<<"get", 2>>, <<"delete", 2>>, <<"resolve", 2>>>>
    /\ 1 \in DOMAIN pendingRequests
    /\ \E c \in DOMAIN calls :
          /\ calls[c].requestId = 2
          /\ calls[c].outcome = [kind |-> "resolved", value |-> ResultOf(2)]

\* C7 - Idempotent late response: a response frame whose requestId is not in
\* pendingRequests (already answered, timed out, drained, or never issued)
\* invokes no continuation and leaves pendingRequests, the slot, every
\* invocation, the timers and the transmitted frames unchanged.
C7_LateResponse ==
    [][\A f \in AnswerFrames :
         (f.requestId \notin DOMAIN pendingRequests /\ Receive(f))
         => UNCHANGED <<pendingRequests, figmaPlugin, readyState, calls, timers, sent>>]_vars

\* C7 witness: the answer to a request arrived after the request had timed
\* out; the handler looked the identifier up and did nothing else.
C7_Witness ==
    \E c \in DOMAIN calls :
        /\ calls[c].requestId # Null
        /\ calls[c].outcome = [kind |-> "rejected", value |-> TimeoutMsg]
        /\ Invocations(c) = 1
        /\ trace = <<<<"get", calls[c].requestId>>>>

\* C8 - Reconnect supersedes: accepting a connection puts it in the slot,
\* whatever the slot held, and a request frame is transmitted on the most
\* recently accepted connection only, never on a superseded one.
C8_ReconnectSupersedes ==
    [][/\ Connection => figmaPlugin' = accepted'
       /\ \A ws \in Conns :
             sent'[ws] # sent[ws] =>
                /\ ws = accepted
                /\ \A other \in Conns \ {ws} : sent'[other] = sent[other]]_vars

\* C8 witness: connection 2 was accepted while connection 1 was open, and a
\* request has just been transmitted on 2 and not on 1.
C8_Witness ==
    /\ accepted = 2
    /\ readyState[1] = "OPEN"
    /\ figmaPlugin = 2
    /\ \E id \in Ids :
          /\ trace = <<<<"set", id>>, <<"timer", id>>, <<"send", id>>>>
          /\ SentOn(id) = {2}

\* C9 - No silent hangs: every tool invocation eventually returns to the
\* upstream caller, and an invocation that is still waiting has a request
\* whose timer has not fired yet, that is, it has returned by the time the
\* timer of its request fires, whatever the peer does.
C9_NoSilentHang ==
    /\ [](\A c \in DOMAIN calls :
             calls[c].response.status = "awaiting" => calls[c].requestId \in timers)
    /\ \A c \in 1..MaxCalls :
          (Len(calls) >= c) ~> (Len(calls) >= c /\ calls[c].response.status = "returned")

\* C9 witness: the peer stayed connected and never answered; the invocation
\* returned the timeout failure when the timer fired.
C9_Witness ==
    \E c \in DOMAIN calls :
        /\ calls[c].requestId # Null
        /\ calls[c].response = CatchResponse(TimeoutMsg)
        /\ trace = <<<<"has", calls[c].requestId>>, <<"delete", calls[c].requestId>>,
                     <<"reject", calls[c].requestId>>>>
        /\ \A ws \in Conns : readyState[ws] \in {"NONE", "OPEN"}

\* C10 - The tool-call handler never throws past its boundary: for every
\* tool name, known or not, and every outcome of the dispatch, the invocation
\* is waiting or has returned a response; a resolved promise gives a success
\* response, a rejected promise or an error thrown in the switch gives a
\* response with isError true that carries the failure message.
C10_NeverThrows ==
    \A c \in DOMAIN calls :
        /\ calls[c].response.status \in {"awaiting", "returned"}
        /\ calls[c].outcome.kind = "resolved" =>
              /\ calls[c].response.status = "returned"
              /\ ~calls[c].response.isError
        /\ calls[c].outcome.kind = "rejected" =>
              calls[c].response = [status |-> "returned", isError |-> TRUE,
                                   text |-> ErrorText(calls[c].outcome.value)]
        /\ calls[c].sendCalls = 0 => calls[c].response.status = "returned"
        /\ calls[c].tool \notin ToolNames =>
              calls[c].response = [status |-> "returned", isError |-> TRUE,
                                   text |-> ErrorText("Unknown tool: " \o calls[c].tool)]

\* C10 witness: the peer answered a fill_slide request with an error and a
\* stack, and the invocation returned it as a structured failure.
C10_Witness ==
    \E c \in DOMAIN calls :
        /\ calls[c].tool = "fill_slide"
        /\ calls[c].outcome.kind = "rejected"
        /\ calls[c].outcome.value = ErrorOf(calls[c].requestId) \o "\nStack trace:\nat f"
        /\ calls[c].response.status = "returned"
        /\ calls[c].response.isError

\* the names the switch of the tool-call handler has a case for: the ones it
\* does not answer with "Unknown tool"
Accepted(name) ==
    \A args \in ArgShapes :
        ToolCase(name, args) # [kind |-> "throw", message |-> "Unknown tool: " \o name]

\* the names in the listing a tool-listing request has just returned
Listing(tr) == {tr[i][1] : i \in DOMAIN tr}

\* C11 - Discovery is independent of relay state: a tool-listing request
\* returns the same 13 names in every state (no peer, peer connected, request
\* pending), they are exactly the names the tool-call handler accepts, and the
\* request transmits nothing and leaves the slot, pendingRequests, the timers
\* and every invocation unchanged.
C11_Discovery ==
    [][ListToolsRequest =>
         /\ Len(trace') = 13
         /\ Cardinality(Listing(trace')) = 13
         /\ \A name \in ToolNames \cup {"no_such_tool"} \cup Listing(trace') :
               name \in Listing(trace') <=> Accepted(name)
         /\ UNCHANGED <<figmaPlugin, readyState, pendingRequests, timers, nextId,
                        calls, sent>>]_vars

\* C11 witness: the tools were listed while a request was pending, and the
\* request is still pending afterwards.
C11_Witness ==
    /\ Len(trace) = 13
    /\ trace[1] = <<"get_figma_state", 0>>
    /\ trace[13] = <<"get_presentation_cache", 0>>
    /\ pendingRequests # EmptyMap
    /\ figmaPlugin # Null

\* C12 - get_figma_state never requires a peer: in every state, with any
\* arguments, the invocation returns in its own step a success response whose
\* connected and ready are both true when the slot holds a connection whose
\* readyState is OPEN and both false otherwise; it calls sendToPlugin not at
\* all, transmits nothing and leaves the slot, pendingRequests and the timers
\* unchanged.
C12_FigmaState ==
    [][\A args \in ArgShapes :
         AnyToolCall("get_figma_state", args)
         => LET c == Len(calls) + 1
                open == figmaPlugin # Null /\ readyState[figmaPlugin] = "OPEN"
            IN /\ calls'[c].response.status = "returned"
               /\ ~calls'[c].response.isError
               /\ open => calls'[c].response.text = StateText(TRUE)
               /\ ~open => calls'[c].response.text = StateText(FALSE)
               /\ calls'[c].sendCalls = 0
               /\ calls'[c].outcome = Unsettled
               /\ UNCHANGED <<figmaPlugin, readyState, pendingRequests, timers,
                              nextId, sent>>]_vars

\* C12 witness: get_figma_state was invoked while the slot held a connection
\* that is closing, and answered connected: false, ready: false.
C12_Witness ==
    /\ figmaPlugin # Null
    /\ readyState[figmaPlugin] = "CLOSING"
    /\ Len(calls) = 1
    /\ calls[1].tool = "get_figma_state"
    /\ calls[1].response =
          [status |-> "returned", isError |-> FALSE, text |-> StateText(FALSE)]
    /\ trace = <<>>

\* positions in a handler's trace at which the handler did `op`
Positions(tr, op) == {i \in DOMAIN tr : tr[i][1] = op}

\* C13 - Close ordering: the close handler writes null into the slot before it
\* invokes the reject continuation of any pending request, and the slot reads
\* null when the handler is over, so a dispatch made in reaction to the drain
\* finds no connection.
C13_CloseOrdering ==
    "log disconnected" \in {trace[i][1] : i \in DOMAIN trace} =>
        /\ \E i \in DOMAIN trace : trace[i] = <<"slot", Null>>
        /\ \A i \in Positions(trace, "slot"), j \in Positions(trace, "reject") : i < j
        /\ figmaPlugin = Null

\* C13 witness: connection 1 closed with request 1 outstanding: the slot was
\* cleared first, then the request was rejected and removed.
C13_Witness ==
    /\ trace = <<<<"log disconnected", 0>>, <<"slot", Null>>, <<"reject", 1>>, <<"delete", 1>>>>
    /\ figmaPlugin = Null
    /\ readyState[1] = "CLOSED"
    /\ calls[1].outcome = [kind |-> "rejected", value |-> DisconnectedMsg]

\* C14 - A transport error event on the peer connection is handled like a
\* close: when the error handler is over the slot is null, pendingRequests is
\* empty and every request that was issued has been settled.
C14_ErrorLikeClose ==
    (trace # <<>> /\ trace[1] = <<"log error", 0>>) =>
        /\ figmaPlugin = Null
        /\ pendingRequests = EmptyMap
        /\ \A c \in DOMAIN calls :
              calls[c].requestId # Null => calls[c].outcome.kind # "unsettled"

\* C14 divergence: the error handler has run on the connection in the slot
\* with a request outstanding; the slot still holds the connection and the
\* request is still in the table, its promise unsettled.
C14_Witness ==
    /\ trace = <<<<"log error", 0>>>>
    /\ figmaPlugin # Null
    /\ readyState[figmaPlugin] = "CLOSING"
    /\ \E id \in DOMAIN pendingRequests :
          /\ calls[pendingRequests[id]].outcome = Unsettled
          /\ SentOn(id) = {figmaPlugin}

\* C15 - Malformed frames are dropped: a frame that fails to parse is logged,
\* settles no request and leaves pendingRequests, the slot, the connections,
\* the timers and the transmitted frames unchanged; the listener goes on, so
\* the next frame, if it is the answer to an outstanding request, settles
\* that request with its own result or error and removes its entry.
C15_MalformedDropped ==
    [][/\ Receive(MalformedFrame) =>
             /\ trace' = <<<<"log parse failure", 0>>>>
             /\ UNCHANGED <<calls, pendingRequests, figmaPlugin, readyState,
                            timers, nextId, sent>>
       /\ \A f \in AnswerFrames :
             (/\ trace = <<<<"log parse failure", 0>>>>
              /\ f.requestId \in DOMAIN pendingRequests
              /\ Receive(f))
             => LET c == pendingRequests[f.requestId]
                IN /\ calls'[c].outcome =
                         IF Truthy(f.error)
                         THEN [kind |-> "rejected", value |-> RemoteErrorMsg(f)]
                         ELSE [kind |-> "resolved", value |-> f.result]
                   /\ calls'[c].response.status = "returned"
                   /\ f.requestId \notin DOMAIN pendingRequests']_vars

\* C15 witness: a malformed frame has just been logged and dropped while a
\* request is outstanding on a connection that is still open.
C15_Witness ==
    /\ trace = <<<<"log parse failure", 0>>>>
    /\ \E id \in DOMAIN pendingRequests :
          /\ calls[pendingRequests[id]].outcome = Unsettled
          /\ \E ws \in SentOn(id) : readyState[ws] = "OPEN"

\* the frames that are not results: notifications and types nobody handles
NotificationFrames == {f \in Frames : ~f.malformed /\ f.type # "execution_result"}

\* C16 - Notifications never touch the pending table: a frame whose type is
\* not execution_result (mode_update, or any other type), whether or not it
\* carries the requestId of an outstanding request, invokes no continuation
\* and leaves pendingRequests, the slot, the timers and the transmitted
\* frames unchanged, in the mode-aware handler and in the latest one; in the
\* mode-aware handler a mode_update sets currentMode to the frame's mode, or
\* to "editing" when it has none, and any other notification leaves it.
C16_Notifications ==
    [][\A f \in NotificationFrames :
         /\ ReceiveModeAware(f) =>
               /\ UNCHANGED <<calls, pendingRequests, figmaPlugin, readyState,
                              timers, nextId, sent>>
               /\ currentMode' = IF f.type # "mode_update" THEN currentMode
                                  ELSE IF f.mode # "" THEN f.mode ELSE "editing"
         /\ LET st == [calls |-> calls, pending |-> pendingRequests, trace |-> <<>>]
            IN handlePluginMessage(f, st) = st]_vars

\* C16 witness: a mode_update has set the mode to "creating" while request
\* 1 is outstanding (the frame may carry the identifier 1); request 1 is
\* still pending.
C16_Witness ==
    /\ trace = <<<<"mode", 0>>, <<"log mode", 0>>>>
    /\ currentMode = "creating"
    /\ 1 \in DOMAIN pendingRequests
    /\ calls[1].outcome = Unsettled

\* result frames that name a request and carry neither a result nor an error
EmptyResultFrames ==
    {f \in Frames : /\ f.type = "execution_result" /\ f.requestId # Null
                    /\ f.result = Undefined /\ f.error = Undefined}

\* C17 (as claimed) - A result frame that carries the identifier of an
\* outstanding request but neither a result nor an error is dropped: the
\* entry stays in pendingRequests and no continuation is invoked.
C17_EmptyResultDropped ==
    [][\A f \in EmptyResultFrames :
         (f.requestId \in DOMAIN pendingRequests /\ Receive(f))
         => UNCHANGED <<pendingRequests, calls>>]_vars

\* C17 (amended) - A result frame that carries the identifier of an
\* outstanding request but neither a result nor an error is a success without
\* a value: the entry is removed, resolve is invoked once with undefined,
\* reject is not invoked, and the invocation returns a response that is not
\* an error.
C17_EmptyResultResolves ==
    [][\A f \in EmptyResultFrames :
         (f.requestId \in DOMAIN pendingRequests /\ Receive(f))
         => LET c == pendingRequests[f.requestId]
            IN /\ pendingRequests' = MapRemove(pendingRequests, f.requestId)
               /\ calls'[c].outcome = [kind |-> "resolved", value |-> Undefined]
               /\ calls'[c].resolveCalls = calls[c].resolveCalls + 1
               /\ calls'[c].rejectCalls = calls[c].rejectCalls
               /\ calls'[c].response.status = "returned"
               /\ ~calls'[c].response.isError]_vars

\* C17 witness: the peer answered request 1 with a frame that has neither a
\* result nor an error; the request was removed and resolved with undefined.
C17_Witness ==
    /\ trace = <<<<"get", 1>>, <<"delete", 1>>, <<"resolve", 1>>>>
    /\ calls[1].outcome = [kind |-> "resolved", value |-> Undefined]
    /\ calls[1].resolveCalls = 1 /\ calls[1].rejectCalls = 0
    /\ pendingRequests = EmptyMap

\* result frames that name a request and carry an error field
ErrorFrames ==
    {f \in Frames : /\ f.type = "execution_result" /\ f.requestId # Null
                    /\ f.error # Undefined}

\* C18 - RemoteError propagation: a result frame that names an outstanding
\* request and carries an error field rejects that request, and never resolves
\* it, with an error made of the peer's error text followed, when the frame
\* has one, by its stack; the invocation returns it as a response with
\* isError true.
C18_RemoteError ==
    [][\A f \in ErrorFrames :
         (f.requestId \in DOMAIN pendingRequests /\ Receive(f))
         => LET c == pendingRequests[f.requestId]
                text == f.error \o (IF f.stack # "" THEN "\nStack trace:\n" \o f.stack
                                                    ELSE "")
            IN /\ calls'[c].outcome = [kind |-> "rejected", value |-> text]
               /\ calls'[c].resolveCalls = calls[c].resolveCalls
               /\ calls'[c].rejectCalls = calls[c].rejectCalls + 1
               /\ calls'[c].response =
                     [status |-> "returned", isError |-> TRUE, text |-> ErrorText(text)]]_vars

\* C19 - Accepting a new connection does not drain: the connection handler
\* puts the new connection in the slot and leaves pendingRequests, every
\* promise, the timers and the transmitted frames unchanged; an entry leaves
\* the table only in a message handler that looked it up, in its timer
\* callback or in a close handler.
C19_AcceptDoesNotDrain ==
    [][/\ Connection =>
             /\ figmaPlugin' = accepted'
             /\ UNCHANGED <<pendingRequests, calls, timers, sent>>
       /\ \A id \in DOMAIN pendingRequests :
             id \notin DOMAIN pendingRequests' =>
                /\ \E i \in DOMAIN trace' : trace'[i] = <<"delete", id>>
                /\ trace'[1] \in {<<"get", id>>, <<"has", id>>, <<"log disconnected", 0>>}]_vars

\* C19 witness: connection 2 was accepted while request 1, transmitted on
\* connection 1, was outstanding; the request is still pending, unsettled.
C19_Witness ==
    /\ trace = <<<<"log connected", 0>>, <<"slot", 2>>>>
    /\ figmaPlugin = 2
    /\ 1 \in DOMAIN pendingRequests
    /\ SentOn(1) = {1}
    /\ calls[pendingRequests[1]].outcome = Unsettled
    /\ 1 \in timers

\* positions in the last handler's trace at which a continuation of a
\* registered request was invoked
Acts == {i \in DOMAIN trace : trace[i][1] \in {"resolve", "reject"} /\ trace[i][2] # Null}

\* C20 (as claimed) - Remove-then-act: in each of the three terminating paths
\* (matching response, timer, disconnect drain) the entry has been deleted
\* from pendingRequests before its continuation is invoked.
C20_RemoveThenAct ==
    \A i \in Acts :
        \E j \in DOMAIN trace : j < i /\ trace[j] = <<"delete", trace[i][2]>>

\* C20 (amended) - The matching-response path and the timer path delete the
\* entry and then invoke its continuation; the disconnect drain invokes
\* reject and deletes the entry in the very next operation; in every path the
\* identifier is out of the table when the handler is over, and no other
\* handler runs in between.
C20_RemoveWithAct ==
    \A i \in Acts :
        /\ trace[i][2] \notin DOMAIN pendingRequests
        /\ IF trace[1] = <<"log disconnected", 0>>
           THEN /\ i < Len(trace)
                /\ trace[i + 1] = <<"delete", trace[i][2]>>
           ELSE /\ trace[1] \in {<<"get", trace[i][2]>>, <<"has", trace[i][2]>>}
                /\ i > 1
                /\ trace[i - 1] = <<"delete", trace[i][2]>>

\* C20 witness: request 1 was answered, then the connection closed with
\* request 2 outstanding: reject was invoked for 2 before 2 was deleted.
C20_Witness ==
    /\ trace = <<<<"log disconnected", 0>>, <<"slot", Null>>, <<"reject", 2>>, <<"delete", 2>>>>
    /\ \E c \in DOMAIN calls : calls[c].requestId = 1 /\ calls[c].outcome.kind = "resolved"
    /\ \E c \in DOMAIN calls :
          /\ calls[c].requestId = 2
          /\ calls[c].outcome = [kind |-> "rejected", value |-> DisconnectedMsg]
    /\ pendingRequests = EmptyMap

\* the request frames transmitted so far, on any connection
AllSent == UNION {sent[ws] : ws \in Conns}

\* C21 - No queueing and no retry: an invocation of a relayed tool calls
\* sendToPlugin once (not at all when its case throws first) and at most one
\* frame carries its identifier, on one connection; a frame is handed to
\* ws.send only by the tool-call handler, as its last operation, for the
\* identifier it has just generated; an invocation refused as not connected
\* has no identifier and no frame, whatever connects later.
C21_NoRetry ==
    /\ \A c \in DOMAIN calls :
          /\ calls[c].sendCalls <= 1
          /\ calls[c].sendCalls = 0 =>
                \/ calls[c].tool \notin ToolNames \ {"get_figma_state"}
                \/ calls[c].response = CatchResponse(TypeErrorMsg)
          /\ calls[c].requestId # Null =>
                /\ Cardinality(SentOn(calls[c].requestId)) = 1
                /\ Cardinality({m \in AllSent : m.requestId = calls[c].requestId}) = 1
          /\ calls[c].outcome = [kind |-> "rejected", value |-> NotConnectedMsg] =>
                calls[c].requestId = Null
    /\ Cardinality(AllSent) = nextId
    /\ \A m \in AllSent : \E c \in DOMAIN calls : calls[c].requestId = m.requestId
    /\ \A i \in DOMAIN trace :
          trace[i][1] = "send" =>
             /\ trace = <<<<"set", nextId>>, <<"timer", nextId>>, <<"send", nextId>>>>
             /\ calls[Len(calls)].requestId = nextId

\* C21 witness: fill_slide was refused as not connected, then a peer
\* connected: nothing was transmitted to it and the invocation stays failed.
C21_Witness ==
    /\ Len(calls) = 1
    /\ calls[1].tool = "fill_slide"
    /\ calls[1].sendCalls = 1
    /\ calls[1].response = CatchResponse(NotConnectedMsg)
    /\ figmaPlugin # Null
    /\ readyState[figmaPlugin] = "OPEN"
    /\ trace = <<<<"log connected", 0>>, <<"slot", figmaPlugin>>>>
    /\ AllSent = {}

\* argument shapes in which the required argument is absent or ill-typed
BadArgShapes == {"undefined", "empty", "wrongtype"}

\* C22 - Argument validation in the tool-call handler: an invocation of a
\* tool with a required argument (execute_figma_command, deep_scan_page,
\* clone_node, fill_slide) in which that argument is absent or not of the
\* declared type returns a response with isError true in its own step, and
\* no request frame is transmitted and no request registered.
C22_ArgumentValidation ==
    [][\A name \in HasRequiredArg, args \in BadArgShapes :
         AnyToolCall(name, args)
         => /\ calls'[Len(calls) + 1].response.status = "returned"
            /\ calls'[Len(calls) + 1].response.isError
            /\ UNCHANGED <<sent, pendingRequests, timers>>]_vars

\* C22 divergence: clone_node was invoked without targetNodeId while a peer
\* was connected; the request was registered and its frame, in which the
\* argument is undefined, was transmitted; the invocation is awaiting.
C22_Witness ==
    /\ Len(calls) = 1
    /\ calls[1].tool = "clone_node"
    /\ calls[1].response = Awaiting
    /\ trace = <<<<"set", 1>>, <<"timer", 1>>, <<"send", 1>>>>
    /\ AllSent = {[type |-> "clone_node", arg |-> Undefined, requestId |-> 1]}
    /\ 1 \in DOMAIN pendingRequests

\* the request is one the scan handler answers from the cache
CachedScan(slideId, forceRescan) ==
    /\ ~forceRescan /\ slideId = Undefined
    /\ presentationCache.exists /\ presentationCache.pageId = currentPage

C24_RegisterBeforeSend ==
    /\ \A i \in DOMAIN trace :
          trace[i][1] = "send" =>
             /\ \E j \in 1..(i - 1) : trace[j] = <<"set", trace[i][2]>>
             /\ \E j \in 1..(i - 1) : trace[j] = <<"timer", trace[i][2]>>
             /\ trace[i][2] \in DOMAIN pendingRequests
             /\ trace[i][2] \in timers
    /\ \A m \in AllSent :
          \/ m.requestId \in DOMAIN pendingRequests
          \/ \E c \in DOMAIN calls : /\ calls[c].requestId = m.requestId
                                      /\ calls[c].outcome.kind # "unsettled"

\* C24 witness: the second request has just been transmitted while the first
\* is outstanding; both are registered and both timers are scheduled.
C24_Witness ==
    /\ trace = <<<<"set", 2>>, <<"timer", 2>>, <<"send", 2>>>>
    /\ DOMAIN pendingRequests = {1, 2}
    /\ timers = {1, 2}
    /\ \E m \in AllSent : m.requestId = 2

\* C25 - Stale timer is a no-op: a timer, once scheduled, is never cancelled
\* (it leaves the set of scheduled timers only by firing), and when it fires
\* for an identifier that is no longer in pendingRequests its callback tests
\* the table and does nothing else: no continuation is invoked and the
\* table, the slot and the transmitted frames are unchanged.
C25_StaleTimer ==
    [][/\ \A id \in timers : id \notin timers' => trace'[1] = <<"has", id>>
       /\ \A id \in timers' : id \in timers \/ trace'[2] = <<"timer", id>>
       /\ \A id \in Ids :
             (TimerFire(id) /\ id \notin DOMAIN pendingRequests)
             => /\ trace' = <<<<"has", id>>>>
                /\ UNCHANGED <<pendingRequests, calls, figmaPlugin, readyState, sent>>]_vars

\* C25 witness: request 1 was resolved by its response, and later its timer
\* fired: the promise is still resolved and reject was never invoked.
C25_Witness ==
    /\ trace = <<<<"has", 1>>>>
    /\ 1 \notin timers
    /\ \E c \in DOMAIN calls :
          /\ calls[c].requestId = 1
          /\ calls[c].outcome = [kind |-> "resolved", value |-> ResultOf(1)]
          /\ calls[c].resolveCalls = 1 /\ calls[c].rejectCalls = 0

\* C26 - Slot liveness: whenever the most recently accepted connection is
\* still open the slot holds it, so the close event of a superseded
\* connection does not clear the slot and a dispatch made afterwards is
\* transmitted on the newer connection instead of being refused.
C26_SlotLiveness ==
    (accepted > 0 /\ readyState[accepted] = "OPEN") => figmaPlugin = accepted

\* C26 divergence: connection 1 closed after connection 2 was accepted; the
\* slot is null while connection 2 is open, and the tool call made then was
\* refused as not connected.
C26_Witness ==
    /\ accepted = 2
    /\ readyState[1] = "CLOSED"
    /\ readyState[2] = "OPEN"
    /\ figmaPlugin = Null
    /\ trace = <<<<"reject", Null>>>>
    /\ calls[Len(calls)].response = CatchResponse(NotConnectedMsg)
    /\ sent[2] = {}

\* C27 - Disconnect scope: a request is rejected with "Figma plugin
\* disconnected" only if the connection on which its frame was transmitted
\* has closed.
C27_DisconnectScope ==
    \A c \in DOMAIN calls :
        calls[c].outcome = [kind |-> "rejected", value |-> DisconnectedMsg] =>
            \E ws \in SentOn(calls[c].requestId) : readyState[ws] = "CLOSED"

\* C27 divergence: the request was transmitted on connection 2, which is
\* still open; the close of the superseded connection 1 rejected it as
\* disconnected.
C27_Witness ==
    /\ trace = <<<<"log disconnected", 0>>, <<"slot", Null>>, <<"reject", 1>>, <<"delete", 1>>>>
    /\ SentOn(1) = {2}
    /\ readyState[2] = "OPEN"
    /\ readyState[1] = "CLOSED"
    /\ \E c \in DOMAIN calls :
          /\ calls[c].requestId = 1
          /\ calls[c].outcome = [kind |-> "rejected", value |-> DisconnectedMsg]

\* C28 - Frames from superseded connections: while a connection that the
\* slot no longer holds is open its message listener is attached, and a
\* result frame for an outstanding request that arrives on it is handled
\* like any other: it settles the request and removes its entry, also when
\* the request was transmitted on another connection.
C28_SupersededFrames ==
    \A ws \in Conns :
        (readyState[ws] = "OPEN" /\ figmaPlugin # ws) =>
            \A f \in AnswerFrames :
                f.requestId \in DOMAIN pendingRequests =>
                    ENABLED (/\ Message(ws, f)
                             /\ calls'[pendingRequests[f.requestId]].outcome =
                                   IF Truthy(f.error)
                                   THEN [kind |-> "rejected", value |-> RemoteErrorMsg(f)]
                                   ELSE [kind |-> "resolved", value |-> f.result]
                             /\ f.requestId \notin DOMAIN pendingRequests')

\* C28 witness: request 1 was transmitted on connection 2, which has begun
\* to close; its answer arrived on the superseded connection 1, the only one
\* open, and resolved it.
C28_Witness ==
    /\ SentOn(1) = {2}
    /\ figmaPlugin = 2
    /\ readyState[2] = "CLOSING"
    /\ readyState[1] = "OPEN"
    /\ trace = <<<<"get", 1>>, <<"delete", 1>>, <<"resolve", 1>>>>
    /\ \E c \in DOMAIN calls :
          /\ calls[c].requestId = 1
          /\ calls[c].outcome = [kind |-> "resolved", value |-> ResultOf(1)]

\* the message carries a result: `result` is there and is not undefined
HasResult(m) == m.result.present /\ m.result.value

\* the message carries an error
HasError(m) == m.error # Undefined

\* the types of the messages that ask for an operation: the cases of the
\* switch of figma.ui.onmessage, but "resize"
OperationTypes ==
    ReadingTypes \cup {"execute", "scan_presentation", "configure_presentation",
                       "get_presentation_cache"}

\* C29 - Peer answers exactly once: for every inbound message of an operation
\* kind or of an unknown type that carries a requestId, the controller posts
\* exactly one execution_result message with that requestId, which carries
\* either a result or an error, never both and never neither, whether the
\* handler returns or throws.
C29_AnswersOnce ==
    (inbound.type \in OperationTypes \cup UnknownTypes /\ inbound.requestId # Null) =>
        /\ Len(posted) = 1
        /\ posted[1].type = "execution_result"
        /\ posted[1].requestId = inbound.requestId
        /\ HasResult(posted[1]) # HasError(posted[1])

\* C29 witness: the last message handled was an "execute" whose code returns
\* nothing, and the one message posted for it has neither result nor error.
C29_Witness ==
    /\ inbound = Inbound("execute", 1)
    /\ Len(posted) = 1
    /\ posted[1].type = "execution_result"
    /\ posted[1].result.present
    /\ ~HasResult(posted[1])
    /\ ~HasError(posted[1])

\* C30 - Peer-side responses are not queued: an answer the controller posts
\* while the socket of the UI is absent or not open is dropped; it is on no
\* socket of the UI, at the time or after a reconnect, so the request it
\* answers is unsettled or was rejected by its timer or by a close handler.
C30_NotQueued ==
    \A msg \in dropped :
        /\ \A k \in Conns : \A f \in wsSent[k] : f.requestId # msg.requestId
        /\ \A c \in DOMAIN calls :
              calls[c].requestId = msg.requestId =>
                  \/ calls[c].outcome = Unsettled
                  \/ calls[c].outcome = [kind |-> "rejected", value |-> TimeoutMsg]
                  \/ calls[c].outcome = [kind |-> "rejected", value |-> DisconnectedMsg]

\* C30 witness: the answer to request 1 was dropped, the UI has reconnected
\* since and its second socket is open with only the mode sent on it, and
\* request 1 has ended by its timer.
C30_Witness ==
    /\ \E msg \in dropped : msg.requestId = 1
    /\ wsRef = 2
    /\ wsState[2] = "OPEN"
    /\ wsSent[2] = {ModeUpdate}
    /\ \E c \in DOMAIN calls :
          /\ calls[c].requestId = 1
          /\ calls[c].outcome = [kind |-> "rejected", value |-> TimeoutMsg]

====
